---- MODULE Spec2Model ----
(***************************************************************************)
(* Model of the mapant-fr worker: src/main.ts (the dispatch cycle          *)
(* getAndHandleNextJob and its helpers) and src/schemas.ts (the zod        *)
(* schemas the poll response is decoded with).                             *)
(*                                                                         *)
(* Strings the code computes with (tileUrl, paths) are sequences of        *)
(* one-character strings, so that split, join and the template literals    *)
(* are computed as the code computes them.                                 *)
(***************************************************************************)
EXTENDS Integers, Sequences, FiniteSets, TLC

(***************************************************************************)
(* Bounds of the model.                                                    *)
(***************************************************************************)
\* number of invocations of getAndHandleNextJob the model follows
MaxCycles == 3

CycleIds == 1..MaxCycles

(***************************************************************************)
(* Strings.                                                                *)
(***************************************************************************)
Slash == "/"

LidarFilesDir == <<"l","i","d","a","r","-","f","i","l","e","s">>
LidarStepDir == <<"l","i","d","a","r","-","s","t","e","p">>
TarBz2Ext == <<".","t","a","r",".","b","z","2">>

\* the tile URLs the dispatch endpoint hands out in the model
ExampleTileUrl ==
  <<"h","t","t","p","s",":","/","/","e","x","a","m","p","l","e",".","c","o","m",
    "/","t","i","l","e","s","/","4","2","_","7",".","b","i","n">>
OtherTileUrl == <<"h","t","t","p",":","/","/","h","/","7",".","l","a","z">>
TrailingSlashUrl == <<"h","t","t","p",":","/","/","h","/","t","/">>
QueryTileUrl == <<"h","t","t","p",":","/","/","h","/","7",".","l","a","z","?","v","=","1">>
\* strings that are no absolute URL
RelativePath == <<"t","i","l","e","s","/","7",".","l","a","z">>
NumericString == <<"4","2">>

Letters ==
  {"a","b","c","d","e","f","g","h","i","j","k","l","m",
   "n","o","p","q","r","s","t","u","v","w","x","y","z"}

\* index of the last "/" of s, 0 when there is none
RECURSIVE LastSlash(_, _)
LastSlash(s, i) ==
  IF i = 0 THEN 0
  ELSE IF s[i] = Slash THEN i
  ELSE LastSlash(s, i - 1)

\* s.split("/").reverse()[0]: the text after the last "/" (all of s without one)
LastSegment(s) == SubSeq(s, LastSlash(s, Len(s)) + 1, Len(s))

\* join(a, b) of jsr:@std/path for a relative directory a and a segment b
\* without "." or "..": empty segments are dropped
Join(a, b) ==
  IF b = <<>> THEN a
  ELSE IF a = <<>> THEN b
  ELSE a \o <<Slash>> \o b

Digit(d) == CASE d = 0 -> "0" [] d = 1 -> "1" [] d = 2 -> "2" [] d = 3 -> "3"
              [] d = 4 -> "4" [] d = 5 -> "5" [] d = 6 -> "6" [] d = 7 -> "7"
              [] d = 8 -> "8" [] d = 9 -> "9"

\* `${n}` for a non-negative integer n
RECURSIVE NumToString(_)
NumToString(n) ==
  IF n < 10 THEN <<Digit(n)>>
  ELSE NumToString(n \div 10) \o <<Digit(n % 10)>>

\* `${x}_${y}`
TileName(x, y) == NumToString(x) \o <<"_">> \o NumToString(y)

(***************************************************************************)
(* JSON values and documents (the body of the poll response).              *)
(***************************************************************************)
Missing == [k |-> "missing", n |-> 0, s |-> <<>>]
Num(n) == [k |-> "num", n |-> n, s |-> <<>>]
Str(s) == [k |-> "str", n |-> 0, s |-> s]

\* no "data" member at all
NoData == [x |-> Missing, y |-> Missing, z |-> Missing, tileUrl |-> Missing]

CoordValues == {Missing, Num(7), Num(42), Str(NumericString)}
ZValues == {Missing, Num(7), Str(NumericString)}
UrlValues ==
  {Missing, Num(7), Str(ExampleTileUrl), Str(OtherTileUrl), Str(TrailingSlashUrl),
   Str(QueryTileUrl), Str(RelativePath)}

\* "(absent)": the document has no "type" member
TypeValues == {"lidar", "render", "pyramid", "no-job-left", "Lidar", "(absent)"}

DataObjects == [x : CoordValues, y : CoordValues, z : ZValues, tileUrl : UrlValues]

NotAnObject == [isObject |-> FALSE, type |-> "(absent)", hasData |-> FALSE, data |-> NoData]

\* a stray data member on a document whose shape has none
StrayData == [x |-> Num(7), y |-> Num(42), z |-> Missing, tileUrl |-> Str(OtherTileUrl)]

\* a JSON document: an object with optional members type and data (hasData:
\* data is present and is an object), or some other JSON value (isObject FALSE)
Docs ==
  [isObject : {TRUE}, type : {"lidar", "render", "pyramid"}, hasData : {TRUE},
   data : DataObjects]
    \cup [isObject : {TRUE}, type : TypeValues, hasData : {TRUE}, data : {StrayData}]
    \cup [isObject : {TRUE}, type : TypeValues, hasData : {FALSE}, data : {NoData}]
    \cup {NotAnObject}

(***************************************************************************)
(* src/schemas.ts: the zod schemas.                                        *)
(***************************************************************************)
\* IsNumber with z.coerce.number() in place of z.number(): numeric strings pass
IsNumber_Coercing(v) == v.k = "num" \/ (v.k = "str" /\ v.s = NumericString)

\* z.number()
IsNumber(v) == v.k = "num"

\* z.string()
IsString(v) == v.k = "str"

\* z.string().url(): a string that parses as an absolute URL, scheme first
RECURSIVE AllLetters(_, _)
AllLetters(s, n) ==
  IF n = 0 THEN TRUE
  ELSE s[n] \in Letters /\ AllLetters(s, n - 1)

IsUrlString(v) ==
  /\ IsString(v)
  /\ \E i \in 2..Len(v.s) : v.s[i] = ":" /\ AllLetters(v.s, i - 1)

Failure == [success |-> FALSE, type |-> "(none)", data |-> NoData]
Success(type, data) == [success |-> TRUE, type |-> type, data |-> data]

\* z.object strips the members the schema does not name
lidarJobSchema(doc) ==
  IF /\ doc.isObject /\ doc.type = "lidar" /\ doc.hasData
     /\ IsNumber(doc.data.x) /\ IsNumber(doc.data.y) /\ IsUrlString(doc.data.tileUrl)
  THEN Success("lidar", [NoData EXCEPT !.x = doc.data.x, !.y = doc.data.y,
                                       !.tileUrl = doc.data.tileUrl])
  ELSE Failure

renderJobSchema(doc) ==
  IF /\ doc.isObject /\ doc.type = "render" /\ doc.hasData
     /\ IsNumber(doc.data.x) /\ IsNumber(doc.data.y)
  THEN Success("render", [NoData EXCEPT !.x = doc.data.x, !.y = doc.data.y])
  ELSE Failure

pyramidJobSchema(doc) ==
  IF /\ doc.isObject /\ doc.type = "pyramid" /\ doc.hasData
     /\ IsNumber(doc.data.x) /\ IsNumber(doc.data.y) /\ IsNumber(doc.data.z)
  THEN Success("pyramid", [NoData EXCEPT !.x = doc.data.x, !.y = doc.data.y,
                                         !.z = doc.data.z])
  ELSE Failure

\* noJobSchema without the literal: any object is taken for "no job left"
noJobSchema_AnyObject(doc) ==
  IF doc.isObject THEN Success("no-job-left", NoData) ELSE Failure

noJobSchema(doc) ==
  IF doc.isObject /\ doc.type = "no-job-left"
  THEN Success("no-job-left", NoData)
  ELSE Failure

\* z.union([...]).safeParse: the first schema that accepts the document wins
nextJobApiEndpointResponseSchema(doc) ==
  IF lidarJobSchema(doc).success THEN lidarJobSchema(doc)
  ELSE IF renderJobSchema(doc).success THEN renderJobSchema(doc)
  ELSE IF pyramidJobSchema(doc).success THEN pyramidJobSchema(doc)
  ELSE noJobSchema(doc)

(***************************************************************************)
(* src/main.ts: constants and decisions of getAndHandleNextJob.            *)
(***************************************************************************)
\* 2 * 60 * 1000, the delay handed to setTimeout
RetryDelayMs == 2 * 60 * 1000

\* Response.ok: the status is in 200..299
ResponseOk(status) == status >= 200 /\ status <= 299

\* IsNoJobLeft with the retry also set when a lidar job was handed out
IsNoJobLeft_OrLidar(validResponse) ==
  validResponse.type = "no-job-left" \/ validResponse.type = "lidar"

\* validResponse.type === "no-job-left"
IsNoJobLeft(validResponse) == validResponse.type = "no-job-left"

\* IsLidar with the render branch filled in by a copy of the lidar one
IsLidar_OrRender(validResponse) ==
  validResponse.type = "lidar" \/ validResponse.type = "render"

\* validResponse.type === "lidar"
IsLidar(validResponse) == validResponse.type = "lidar"

\* ToolAborts with the exit code of docker ignored
ToolAborts_Never(exitCode) == FALSE

\* exitCode !== 0 after runCassiniInDocker: return before compressDir
ToolAborts(exitCode) == exitCode # 0

\* SetTimeout called twice for one response
SetTimeout_Twice(pending, c) ==
  pending \o <<[by |-> c, delay |-> RetryDelayMs], [by |-> c, delay |-> RetryDelayMs]>>

\* SetTimeout with the callback never registered
SetTimeout_Forgets(pending, c) == pending

\* setTimeout(() => getAndHandleNextJob(), 2 * 60 * 1000) by invocation c
SetTimeout(pending, c) == Append(pending, [by |-> c, delay |-> RetryDelayMs])

\* const fileName = validResponse.data.tileUrl.split("/").reverse()[0]
FileName(validResponse) == LastSegment(validResponse.data.tileUrl.s)

\* const filePath = join("lidar-files", fileName)
FilePath(validResponse) == Join(LidarFilesDir, FileName(validResponse))

\* const outDirPath = join("lidar-step", `${x}_${y}`)
OutDirPath(validResponse) ==
  Join(LidarStepDir, TileName(validResponse.data.x.n, validResponse.data.y.n))

\* compressDir: archivePath = join(outputDirectoryPath, fileName + ".tar.bz2")
ArchivePath(outputDirectoryPath, fileName) ==
  Join(outputDirectoryPath, fileName \o TarBz2Ext)

LidarArg == <<"l","i","d","a","r">>
DashO == <<"-","o">>
TarFlags == <<"-","c","j","v","f">>

\* the arguments runCassiniInDocker is called with
CassiniArgs(validResponse) ==
  <<LidarArg, FilePath(validResponse), DashO, OutDirPath(validResponse)>>

\* the arguments of the tar command compressDir runs
TarArgs(validResponse) ==
  <<TarFlags,
    ArchivePath(LidarStepDir,
                TileName(validResponse.data.x.n, validResponse.data.y.n)),
    OutDirPath(validResponse)>>

(***************************************************************************)
(* The environment the worker runs in.                                     *)
(***************************************************************************)
Statuses == {200, 500}
ExitCodes == {0, 1}

\* bodies of the tile response, and the content of a file left by an earlier run
Bodies == {<<>>, <<1>>, <<1, 2>>}
OldBytes == <<9, 9, 9>>

TileUrls == {ExampleTileUrl, OtherTileUrl, TrailingSlashUrl, QueryTileUrl}

Absent == [kind |-> "absent", bytes |-> <<>>]
Dir == [kind |-> "dir", bytes |-> <<>>]
File(bytes) == [kind |-> "file", bytes |-> bytes]

TilePaths == {Join(LidarFilesDir, LastSegment(u)) : u \in TileUrls} \ {LidarFilesDir}
Paths == {LidarFilesDir, LidarStepDir} \cup TilePaths

\* the directory a path of the model lies in; <<>> is the working directory
Parent(p) == IF p \in TilePaths THEN LidarFilesDir ELSE <<>>

VARIABLES
  env,        \* which of MAPANT_API_WORKER_ID, MAPANT_API_TOKEN are set
  proc,       \* "booting", "running", "fatal", "crashed", "exited"
  nCycles,    \* invocations of getAndHandleNextJob so far
  pc,         \* per invocation: the await it is suspended at, or how it ended
  startedBy,  \* per invocation: "start" (line 19) or "timer" (line 54)
  rawJson,    \* per invocation: rawJsonResponse
  parsed,     \* per invocation: parsedJsonResponse
  body,       \* per invocation: the body of the tile response
  trace,      \* per invocation: the operations it started and how they ended
  timers,     \* pending setTimeout callbacks, in the order they were set
  fs,         \* the local filesystem: path -> node
  handles     \* paths of the files open for writing

vars == <<env, proc, nCycles, pc, startedBy, rawJson, parsed, body, trace, timers, fs, handles>>

Ev(op, st, args) == [op |-> op, st |-> st, args |-> args]

Ended == {"returned", "thrown"}
InProgress(c) == pc[c] \notin ({"unborn"} \cup Ended)

\* the filesystem a run can start with: each directory there or not (lidar-files
\* possibly a plain file), and at most one tile left by an earlier run
InitialFs ==
  {f \in [Paths -> {Absent, Dir, File(OldBytes)}] :
     /\ f[LidarStepDir] \in {Absent, Dir}
     /\ \A p \in TilePaths :
          /\ f[p] \in {Absent, File(OldBytes)}
          /\ f[p] # Absent => f[LidarFilesDir] = Dir
     /\ Cardinality({p \in TilePaths : f[p] # Absent}) <= 1}

Init ==
  /\ env \in [workerId : BOOLEAN, token : BOOLEAN]
  /\ proc = "booting"
  /\ nCycles = 0
  /\ pc = [c \in CycleIds |-> "unborn"]
  /\ startedBy = [c \in CycleIds |-> "none"]
  /\ rawJson = [c \in CycleIds |-> NotAnObject]
  /\ parsed = [c \in CycleIds |-> Failure]
  /\ body = [c \in CycleIds |-> <<>>]
  /\ trace = [c \in CycleIds |-> <<>>]
  /\ timers = <<>>
  /\ fs \in InitialFs
  /\ handles = {}

\* The runtime after a synchronous segment: an error that left
\* getAndHandleNextJob rejects the top-level await (line 19) or is an
\* unhandled rejection of the timer callback (line 54), and either ends the
\* process; with nothing in progress and no timer pending the process exits.
ProcAfter(newPc, newTimers) ==
  IF \E c \in CycleIds : newPc[c] = "thrown" THEN "crashed"
  ELSE IF newTimers = <<>> /\ \A c \in CycleIds : newPc[c] \in {"unborn", "returned"}
  THEN "exited"
  ELSE "running"

\* invocation c moves to position p, having logged events evs
Step(c, p, evs, newTimers) ==
  /\ pc' = [pc EXCEPT ![c] = p]
  /\ trace' = [trace EXCEPT ![c] = trace[c] \o evs]
  /\ timers' = newTimers
  /\ proc' = ProcAfter(pc', newTimers)

\* getAndHandleNextJob() is called: the poll request is issued (line 22)
Invoke(c, by) ==
  /\ nCycles' = c
  /\ startedBy' = [startedBy EXCEPT ![c] = by]
  /\ pc' = [pc EXCEPT ![c] = "awaitPoll"]
  /\ trace' = [trace EXCEPT ![c] = <<Ev("poll", "start", <<>>)>>]

\* lines 4-19: the module's top level
Startup ==
  /\ proc = "booting"
  /\ IF env.workerId /\ env.token
     THEN /\ Invoke(1, "start")
          /\ proc' = "running"
     ELSE /\ proc' = "fatal"
          /\ UNCHANGED <<nCycles, startedBy, pc, trace>>
  /\ UNCHANGED <<env, rawJson, parsed, body, timers, fs, handles>>

\* the timer set at line 54 fires: the callback calls getAndHandleNextJob()
TimerFires ==
  /\ proc = "running"
  /\ timers # <<>>
  /\ nCycles < MaxCycles
  /\ Invoke(nCycles + 1, "timer")
  /\ timers' = Tail(timers)
  /\ proc' = "running"
  /\ UNCHANGED <<env, rawJson, parsed, body, fs, handles>>

\* PollSettles with the retry also set when the status is not a success
PollSettles_RetryOnFailure(c) ==
  /\ proc = "running"
  /\ pc[c] = "awaitPoll"
  /\ \/ Step(c, "thrown", <<Ev("poll", "err", <<>>)>>, timers)
     \/ \E status \in Statuses :
          IF ~ResponseOk(status)
          THEN Step(c, "returned", <<Ev("poll", "err", <<>>)>>, SetTimeout(timers, c))
          ELSE Step(c, "awaitJson", <<Ev("poll", "ok", <<>>)>>, timers)
  /\ UNCHANGED <<env, nCycles, startedBy, rawJson, parsed, body, fs, handles>>

\* lines 22-39: the poll request settles
PollSettles(c) ==
  /\ proc = "running"
  /\ pc[c] = "awaitPoll"
  /\ \/ \* fetch rejects (network failure): nothing catches it
        Step(c, "thrown", <<Ev("poll", "err", <<>>)>>, timers)
     \/ \E status \in Statuses :
          IF ~ResponseOk(status)
          THEN Step(c, "returned", <<Ev("poll", "err", <<>>)>>, timers)
          ELSE Step(c, "awaitJson", <<Ev("poll", "ok", <<>>)>>, timers)
  /\ UNCHANGED <<env, nCycles, startedBy, rawJson, parsed, body, fs, handles>>

\* AfterCreateDir with the download started once lidar-files is there, lidar-step
\* left out
AfterCreateDir_SkipStepDir(c, dir) ==
  Step(c, "awaitTileFetch",
       <<Ev("createDir", "ok", <<dir>>),
         Ev("download", "start",
            <<parsed[c].data.tileUrl.s, FilePath(parsed[c])>>)>>, timers)

\* what follows a createDirIfItDoenstExist(dir) that returned: lines 60-70
AfterCreateDir(c, dir) ==
  IF dir = LidarFilesDir
  THEN Step(c, "awaitLstatStep",
            <<Ev("createDir", "ok", <<dir>>),
              Ev("createDir", "start", <<LidarStepDir>>)>>, timers)
  ELSE Step(c, "awaitTileFetch",
            <<Ev("createDir", "ok", <<dir>>),
              Ev("download", "start",
                 <<parsed[c].data.tileUrl.s, FilePath(parsed[c])>>)>>, timers)

\* lines 41-97 up to the first await: decode and dispatch
Dispatch(c, doc) ==
  LET parsedJsonResponse == nextJobApiEndpointResponseSchema(doc)
      retry == IF IsNoJobLeft(parsedJsonResponse)
               THEN <<Ev("setTimeout", "ok", <<>>)>> ELSE <<>>
      pending == IF IsNoJobLeft(parsedJsonResponse)
                 THEN SetTimeout(timers, c) ELSE timers
  IN /\ rawJson' = [rawJson EXCEPT ![c] = doc]
     /\ parsed' = [parsed EXCEPT ![c] = parsedJsonResponse]
     /\ IF ~parsedJsonResponse.success
        THEN Step(c, "returned",
                  <<Ev("json", "ok", <<>>), Ev("decode", "err", <<>>)>>, timers)
        ELSE IF IsLidar(parsedJsonResponse)
        THEN Step(c, "awaitLstatFiles",
                  <<Ev("json", "ok", <<>>), Ev("decode", "ok", <<>>)>> \o retry
                    \o <<Ev("createDir", "start", <<LidarFilesDir>>)>>, pending)
        ELSE Step(c, "returned",
                  <<Ev("json", "ok", <<>>), Ev("decode", "ok", <<>>)>> \o retry,
                  pending)

\* lines 39-58: the body of the poll response has been read
JsonSettles(c) ==
  /\ proc = "running"
  /\ pc[c] = "awaitJson"
  /\ \/ \* the body is no JSON text: json() rejects, nothing catches it
        /\ Step(c, "thrown", <<Ev("json", "err", <<>>)>>, timers)
        /\ UNCHANGED <<rawJson, parsed>>
     \/ \E doc \in Docs : Dispatch(c, doc)
  /\ UNCHANGED <<env, nCycles, startedBy, body, fs, handles>>

LstatDir(c) == IF pc[c] = "awaitLstatFiles" THEN LidarFilesDir ELSE LidarStepDir
MkdirDir(c) == IF pc[c] = "awaitMkdirFiles" THEN LidarFilesDir ELSE LidarStepDir

\* an lstat error other than NotFound thrown on
LstatSettles_RethrowOther(c) ==
  /\ proc = "running"
  /\ pc[c] \in {"awaitLstatFiles", "awaitLstatStep"}
  /\ \/ /\ fs[LstatDir(c)].kind # "absent"
        /\ AfterCreateDir(c, LstatDir(c))
     \/ /\ fs[LstatDir(c)].kind = "absent"
        /\ Step(c, IF LstatDir(c) = LidarFilesDir
                   THEN "awaitMkdirFiles" ELSE "awaitMkdirStep", <<>>, timers)
     \/ Step(c, "thrown", <<Ev("createDir", "err", <<LstatDir(c)>>)>>, timers)
  /\ UNCHANGED <<env, nCycles, startedBy, rawJson, parsed, body, fs, handles>>

\* lines 154-162: Deno.lstat(dirPath) settles
LstatSettles(c) ==
  /\ proc = "running"
  /\ pc[c] \in {"awaitLstatFiles", "awaitLstatStep"}
  /\ \/ \* the path exists, whatever it is: nothing to do
        /\ fs[LstatDir(c)].kind # "absent"
        /\ AfterCreateDir(c, LstatDir(c))
     \/ \* Deno.errors.NotFound: Deno.mkdir is called
        /\ fs[LstatDir(c)].kind = "absent"
        /\ Step(c, IF LstatDir(c) = LidarFilesDir
                   THEN "awaitMkdirFiles" ELSE "awaitMkdirStep", <<>>, timers)
     \/ \* another error (permission denied, ...): logged and dropped
        AfterCreateDir(c, LstatDir(c))
  /\ UNCHANGED <<env, nCycles, startedBy, rawJson, parsed, body, fs, handles>>

\* line 158: Deno.mkdir(dirPath, { recursive: true }) settles
MkdirSettles(c) ==
  /\ proc = "running"
  /\ pc[c] \in {"awaitMkdirFiles", "awaitMkdirStep"}
  /\ \/ /\ fs[MkdirDir(c)].kind # "file"
        /\ fs' = [fs EXCEPT ![MkdirDir(c)] = Dir]
        /\ AfterCreateDir(c, MkdirDir(c))
     \/ \* mkdir rejects: the error leaves createDirIfItDoenstExist
        /\ Step(c, "thrown", <<Ev("createDir", "err", <<MkdirDir(c)>>)>>, timers)
        /\ UNCHANGED fs
  /\ UNCHANGED <<env, nCycles, startedBy, rawJson, parsed, body, handles>>

\* where downloadFileToDisk failed: the fetch (rejected, !ok, no body), Deno.open,
\* or pipeTo
FetchFailed == <<"f","e","t","c","h">>
OpenFailed == <<"o","p","e","n">>
PipeFailed == <<"p","i","p","e">>

\* lines 139-148: fetch(url) of downloadFileToDisk settles
TileFetchSettles(c) ==
  /\ proc = "running"
  /\ pc[c] = "awaitTileFetch"
  /\ \/ \* fetch rejects, or !ok, or body === null: throw
        /\ Step(c, "thrown", <<Ev("download", "err", <<FetchFailed>>)>>, timers)
        /\ UNCHANGED body
     \/ \E status \in Statuses, b \in Bodies :
          /\ ResponseOk(status)
          /\ body' = [body EXCEPT ![c] = b]
          /\ Step(c, "awaitOpen", <<>>, timers)
  /\ UNCHANGED <<env, nCycles, startedBy, rawJson, parsed, fs, handles>>

\* Deno.open(filePath, { create: true, write: true }) can succeed
CanOpen(p) ==
  /\ fs[p].kind # "dir"
  /\ Parent(p) # <<>> => fs[Parent(p)].kind = "dir"

\* the node at filePath once it is open: created empty when absent, and left
\* with the bytes it has otherwise
Opened(node) == IF node.kind = "absent" THEN File(<<>>) ELSE node

\* lines 145-150: Deno.open settles
OpenSettles(c) ==
  /\ proc = "running"
  /\ pc[c] = "awaitOpen"
  /\ \/ /\ CanOpen(FilePath(parsed[c]))
        /\ fs' = [fs EXCEPT ![FilePath(parsed[c])] = Opened(@)]
        /\ handles' = handles \cup {FilePath(parsed[c])}
        /\ Step(c, "awaitPipe", <<>>, timers)
     \/ \* open rejects (no such directory, is a directory, permission denied)
        /\ Step(c, "thrown", <<Ev("download", "err", <<OpenFailed>>)>>, timers)
        /\ UNCHANGED <<fs, handles>>
  /\ UNCHANGED <<env, nCycles, startedBy, rawJson, parsed, body>>

\* writing b from offset 0 into a file holding old
WriteAt0(old, b) == b \o SubSeq(old, Len(b) + 1, Len(old))

\* PipeSettles without `using`: the file is closed only once the body is written
PipeSettles_LeakOnError(c) ==
  /\ proc = "running"
  /\ pc[c] = "awaitPipe"
  /\ \/ /\ handles' = handles \ {FilePath(parsed[c])}
        /\ fs' = [fs EXCEPT ![FilePath(parsed[c])] =
                    File(WriteAt0(@.bytes, body[c]))]
        /\ Step(c, "awaitTool",
                <<Ev("download", "ok", <<>>),
                  Ev("docker", "start", CassiniArgs(parsed[c]))>>, timers)
     \/ \E n \in 0..Len(body[c]) :
          /\ handles' = handles
          /\ fs' = [fs EXCEPT ![FilePath(parsed[c])] =
                      File(WriteAt0(@.bytes, SubSeq(body[c], 1, n)))]
          /\ Step(c, "thrown", <<Ev("download", "err", <<PipeFailed>>)>>, timers)
  /\ UNCHANGED <<env, nCycles, startedBy, rawJson, parsed, body>>

\* PipeSettles with the write error logged and dropped: docker runs on the
\* partial file
PipeSettles_SwallowError(c) ==
  /\ proc = "running"
  /\ pc[c] = "awaitPipe"
  /\ handles' = handles \ {FilePath(parsed[c])}
  /\ \/ /\ fs' = [fs EXCEPT ![FilePath(parsed[c])] =
                    File(WriteAt0(@.bytes, body[c]))]
        /\ Step(c, "awaitTool",
                <<Ev("download", "ok", <<>>),
                  Ev("docker", "start", CassiniArgs(parsed[c]))>>, timers)
     \/ \E n \in 0..Len(body[c]) :
          /\ fs' = [fs EXCEPT ![FilePath(parsed[c])] =
                      File(WriteAt0(@.bytes, SubSeq(body[c], 1, n)))]
          /\ Step(c, "awaitTool",
                  <<Ev("download", "err", <<PipeFailed>>),
                    Ev("docker", "start", CassiniArgs(parsed[c]))>>, timers)
  /\ UNCHANGED <<env, nCycles, startedBy, rawJson, parsed, body>>

\* lines 150-151, 72-78: body.pipeTo(file.writable) settles; the file is
\* closed with the stream and again when `using file` leaves its scope
PipeSettles(c) ==
  /\ proc = "running"
  /\ pc[c] = "awaitPipe"
  /\ handles' = handles \ {FilePath(parsed[c])}
  /\ \/ /\ fs' = [fs EXCEPT ![FilePath(parsed[c])] =
                    File(WriteAt0(@.bytes, body[c]))]
        /\ Step(c, "awaitTool",
                <<Ev("download", "ok", <<>>),
                  Ev("docker", "start", CassiniArgs(parsed[c]))>>, timers)
     \/ \* an I/O error after a prefix of the body was written
        \E n \in 0..Len(body[c]) :
          /\ fs' = [fs EXCEPT ![FilePath(parsed[c])] =
                      File(WriteAt0(@.bytes, SubSeq(body[c], 1, n)))]
          /\ Step(c, "thrown", <<Ev("download", "err", <<PipeFailed>>)>>, timers)
  /\ UNCHANGED <<env, nCycles, startedBy, rawJson, parsed, body>>

\* lines 73-87: the docker command of runCassiniInDocker settles
ToolSettles(c) ==
  /\ proc = "running"
  /\ pc[c] = "awaitTool"
  /\ \/ \* docker cannot be started: cmd.output() rejects
        Step(c, "thrown", <<Ev("docker", "err", <<>>)>>, timers)
     \/ \E exitCode \in ExitCodes :
          IF ToolAborts(exitCode)
          THEN Step(c, "returned", <<Ev("docker", "exit", <<NumToString(exitCode)>>)>>,
                    timers)
          ELSE Step(c, "awaitTar",
                    <<Ev("docker", "exit", <<NumToString(exitCode)>>),
                      Ev("tar", "start", TarArgs(parsed[c]))>>, timers)
  /\ UNCHANGED <<env, nCycles, startedBy, rawJson, parsed, body, fs, handles>>

\* TarSettles with the next poll scheduled once the archive is written
TarSettles_Reschedule(c) ==
  /\ proc = "running"
  /\ pc[c] = "awaitTar"
  /\ \/ Step(c, "thrown", <<Ev("tar", "err", <<>>)>>, timers)
     \/ \E compressExitCode \in ExitCodes :
          Step(c, "returned",
               <<Ev("tar", "exit", <<NumToString(compressExitCode)>>)>>,
               SetTimeout(timers, c))
  /\ UNCHANGED <<env, nCycles, startedBy, rawJson, parsed, body, fs, handles>>

\* lines 83-97: the tar command of compressDir settles
TarSettles(c) ==
  /\ proc = "running"
  /\ pc[c] = "awaitTar"
  /\ \/ Step(c, "thrown", <<Ev("tar", "err", <<>>)>>, timers)
     \/ \E compressExitCode \in ExitCodes :
          Step(c, "returned",
               <<Ev("tar", "exit", <<NumToString(compressExitCode)>>)>>, timers)
  /\ UNCHANGED <<env, nCycles, startedBy, rawJson, parsed, body, fs, handles>>

Next ==
  \/ Startup
  \/ TimerFires
  \/ \E c \in CycleIds : PollSettles(c)
  \/ \E c \in CycleIds : JsonSettles(c)
  \/ \E c \in CycleIds : LstatSettles(c)
  \/ \E c \in CycleIds : MkdirSettles(c)
  \/ \E c \in CycleIds : TileFetchSettles(c)
  \/ \E c \in CycleIds : OpenSettles(c)
  \/ \E c \in CycleIds : PipeSettles(c)
  \/ \E c \in CycleIds : ToolSettles(c)
  \/ \E c \in CycleIds : TarSettles(c)

Spec == Init /\ [][Next]_vars

\* the runtime runs the callback of a timer that is due
FairSpec == Spec /\ WF_vars(TimerFires)

TypeOK ==
  /\ proc \in {"booting", "running", "fatal", "crashed", "exited"}
  /\ nCycles \in 0..MaxCycles
  /\ handles \subseteq Paths

(***************************************************************************)
(* Properties.                                                             *)
(***************************************************************************)
\* invocation c logged an event of operation op with status st
Has(c, op, st) == \E i \in DOMAIN trace[c] : trace[c][i].op = op /\ trace[c][i].st = st

\* how often invocation c logged operation op with status st
Count(c, op, st) ==
  Cardinality({i \in DOMAIN trace[c] : trace[c][i].op = op /\ trace[c][i].st = st})

\* the retry timers invocation c set that are still pending
PendingBy(c) == {i \in DOMAIN timers : timers[i].by = c}

\* invocation c ran its synchronous dispatch on a response that decoded to type t
Decoded(c, t) == Has(c, "decode", "ok") /\ parsed[c].type = t

\* C1: a cycle whose response decodes to NoJobLeft sets exactly one retry, of
\* 2 minutes (pending, or consumed by the next invocation), and at most one
\* retry timer is pending in any state.
C1_OneRetryAfterNoJobLeft ==
  /\ Len(timers) <= 1
  /\ \A i \in DOMAIN timers : timers[i].delay = 120000
  /\ \A c \in CycleIds :
       Decoded(c, "no-job-left") =>
         /\ Count(c, "setTimeout", "ok") = 1
         /\ Cardinality(PendingBy(c)) + (IF nCycles > c THEN 1 ELSE 0) = 1

\* a second NoJobLeft in a row, answered to a cycle the timer started
C1_Witness ==
  /\ nCycles >= 2
  /\ startedBy[2] = "timer"
  /\ Decoded(1, "no-job-left") /\ Decoded(2, "no-job-left")
  /\ pc[2] = "returned"
  /\ Len(timers) = 1

\* C2: a failed poll (network failure or non-success status) sets no timer,
\* starts no pipeline step and ends the cycle by a normal return.
C2_PollFailureReturns ==
  \A c \in CycleIds :
    Has(c, "poll", "err") =>
      /\ pc[c] = "returned"
      /\ PendingBy(c) = {}
      /\ Len(trace[c]) = 2

\* a step of invocation c's lidar pipeline failed: the download, the start of
\* docker or tar, or a non-zero exit code
LidarStepFailed(c) ==
  \/ Has(c, "download", "err") \/ Has(c, "docker", "err") \/ Has(c, "tar", "err")
  \/ \E i \in DOMAIN trace[c] :
       /\ trace[c][i].op \in {"docker", "tar"} /\ trace[c][i].st = "exit"
       /\ trace[c][i].args # <<NumToString(0)>>

\* C3: a failed step of a lidar pipeline ends the cycle by a return: no error
\* leaves getAndHandleNextJob and the process does not crash.
C3_LidarFailureCaught ==
  \A c \in CycleIds :
    LidarStepFailed(c) => pc[c] = "returned" /\ proc # "crashed"

\* C4: tar is started only right after docker exited with code 0 in the same
\* cycle, and never in a cycle whose docker run exited with another code.
C4_NoArchiveAfterToolFailure ==
  \A c \in CycleIds :
    /\ \A i \in DOMAIN trace[c] :
         (trace[c][i].op = "tar" /\ trace[c][i].st = "start") =>
           /\ i > 1
           /\ trace[c][i - 1] = Ev("docker", "exit", <<NumToString(0)>>)
    /\ (\E i \in DOMAIN trace[c] :
          /\ trace[c][i].op = "docker" /\ trace[c][i].st = "exit"
          /\ trace[c][i].args # <<NumToString(0)>>)
         => ~Has(c, "tar", "start")

\* docker exited with code 1 and the cycle returned
C4_Witness ==
  \E c \in CycleIds :
    /\ Has(c, "docker", "exit")
    /\ trace[c][Len(trace[c])] = Ev("docker", "exit", <<NumToString(1)>>)
    /\ pc[c] = "returned"

C6_OnlyNoJobLeftRepolls ==
  /\ \A c \in CycleIds :
       pc[c] # "unborn" =>
         \/ c = 1 /\ startedBy[c] = "start"
         \/ c > 1 /\ startedBy[c] = "timer" /\ Decoded(c - 1, "no-job-left")
  /\ \A i \in DOMAIN timers : Decoded(timers[i].by, "no-job-left")
  /\ \A c \in CycleIds :
       (pc[c] \in Ended /\ ~Decoded(c, "no-job-left")) =>
         nCycles = c /\ PendingBy(c) = {}

\* a cycle started by the timer ended on a failed poll: nothing follows
C6_Witness ==
  /\ startedBy[2] = "timer"
  /\ Has(2, "poll", "err")
  /\ pc[2] \in Ended
  /\ nCycles = 2
  /\ timers = <<>>

\* C7: at most one invocation is in progress, and an invocation started by
\* the timer finds the one before it ended.
C7_OneCycleAtATime ==
  /\ Cardinality({c \in CycleIds : InProgress(c)}) <= 1
  /\ \A c \in CycleIds :
       startedBy[c] = "timer" => c > 1 /\ pc[c - 1] \in Ended
  /\ \A i \in DOMAIN timers : pc[timers[i].by] \in Ended

\* the timer's cycle is in the middle of a lidar pipeline
C7_Witness ==
  /\ startedBy[2] = "timer"
  /\ pc[1] = "returned"
  /\ pc[2] = "awaitTool"

\* the event before position i of invocation c's log
Before(c, i) == IF i > 1 THEN trace[c][i - 1] ELSE Ev("none", "none", <<>>)

ShapeNumber(v) == v.k = "num"
ShapeUrl(v) == v.k = "str" /\ v.s \in TileUrls
MatchesLidar(d) ==
  /\ d.isObject /\ d.type = "lidar" /\ d.hasData
  /\ ShapeNumber(d.data.x) /\ ShapeNumber(d.data.y) /\ ShapeUrl(d.data.tileUrl)
MatchesRender(d) ==
  /\ d.isObject /\ d.type = "render" /\ d.hasData
  /\ ShapeNumber(d.data.x) /\ ShapeNumber(d.data.y)
MatchesPyramid(d) ==
  /\ d.isObject /\ d.type = "pyramid" /\ d.hasData
  /\ ShapeNumber(d.data.x) /\ ShapeNumber(d.data.y) /\ ShapeNumber(d.data.z)
MatchesNoJob(d) == d.isObject /\ d.type = "no-job-left"
MatchesSomeShape(d) ==
  MatchesLidar(d) \/ MatchesRender(d) \/ MatchesPyramid(d) \/ MatchesNoJob(d)

\* invocation c did nothing but poll and decode
NoWorkDone(c) ==
  /\ \A i \in DOMAIN trace[c] : trace[c][i].op \in {"poll", "json", "decode"}
  /\ PendingBy(c) = {}
  /\ nCycles = c

\* C9: a response that matches none of the four shapes (or is no JSON) ends
\* the cycle with no timer set, no directory, download or command, and is not
\* taken for NoJobLeft.
C9_DecodeFailureEndsCycle ==
  \A c \in CycleIds :
    (Has(c, "json", "err") \/ (Has(c, "json", "ok") /\ ~MatchesSomeShape(rawJson[c])))
    => /\ pc[c] \in Ended
       /\ NoWorkDone(c)
       /\ parsed[c].type # "no-job-left"
       /\ timers = <<>>

\* a lidar document with a numeric string for x, answered to the timer's cycle
C9_Witness ==
  /\ startedBy[2] = "timer"
  /\ Has(2, "json", "ok")
  /\ rawJson[2].type = "lidar"
  /\ rawJson[2].data.x = Str(NumericString)
  /\ pc[2] = "returned"

\* C10: a document matching a shape decodes to the job of its type with the
\* shape's fields as they are in the document; any other document fails to
\* decode; a decoded job has the document's type and every field of its kind.
C10_DecodeByShape ==
  \A c \in CycleIds :
    Has(c, "json", "ok") =>
      LET d == rawJson[c]
          r == parsed[c]
      IN /\ MatchesLidar(d) =>
              /\ r.success /\ r.type = "lidar"
              /\ r.data.x = d.data.x /\ r.data.y = d.data.y
              /\ r.data.tileUrl = d.data.tileUrl
         /\ MatchesRender(d) =>
              /\ r.success /\ r.type = "render"
              /\ r.data.x = d.data.x /\ r.data.y = d.data.y
         /\ MatchesPyramid(d) =>
              /\ r.success /\ r.type = "pyramid"
              /\ r.data.x = d.data.x /\ r.data.y = d.data.y /\ r.data.z = d.data.z
         /\ MatchesNoJob(d) => r.success /\ r.type = "no-job-left"
         /\ ~MatchesSomeShape(d) => ~r.success
         /\ r.success =>
              /\ r.type = d.type
              /\ r.type \in {"lidar", "render", "pyramid"} =>
                   ShapeNumber(r.data.x) /\ ShapeNumber(r.data.y)
              /\ r.type = "lidar" => ShapeUrl(r.data.tileUrl)
              /\ r.type = "pyramid" => ShapeNumber(r.data.z)

\* a pyramid document whose z is a numeric string failed to decode, and one
\* cycle earlier a well-formed NoJobLeft document decoded
C10_Witness ==
  /\ Decoded(1, "no-job-left")
  /\ Has(2, "json", "ok")
  /\ rawJson[2].type = "pyramid"
  /\ ShapeNumber(rawJson[2].data.x) /\ ShapeNumber(rawJson[2].data.y)
  /\ rawJson[2].data.z = Str(NumericString)
  /\ ~parsed[2].success

\* the part of C11 about the configuration: with MAPANT_API_WORKER_ID or
\* MAPANT_API_TOKEN unset the process ends fatally with no poll and no timer
ConfigMissingIsFatal ==
  (~env.workerId \/ ~env.token) =>
    /\ proc \in {"booting", "fatal"}
    /\ nCycles = 0
    /\ timers = <<>>
    /\ \A c \in CycleIds : pc[c] = "unborn" /\ trace[c] = <<>>

\* C11: a missing MAPANT_API_WORKER_ID or MAPANT_API_TOKEN ends the process
\* before any poll or timer, and nothing else ends it with an error.
C11_OnlyConfigMissingIsFatal ==
  /\ ConfigMissingIsFatal
  /\ proc # "crashed"

\* C12: once downloadFileToDisk has succeeded, the file at filePath holds the
\* bytes of the response body and nothing else, whatever was there before.
C12_DownloadedFileEqualsBody ==
  \A c \in CycleIds :
    Has(c, "download", "ok") => fs[FilePath(parsed[c])] = File(body[c])

\* C13: a file is open for writing only while a download is streaming into
\* it; once downloadFileToDisk has ended, well or not, none is.
C13_NoHandleAfterDownload ==
  /\ \A p \in handles :
       \E c \in CycleIds : pc[c] = "awaitPipe" /\ FilePath(parsed[c]) = p
  /\ \A c \in CycleIds :
       (Has(c, "download", "ok") \/ Has(c, "download", "err")) => handles = {}

\* the stream failed after the file was opened
C13_Witness ==
  \E c \in CycleIds :
    /\ pc[c] = "thrown"
    /\ trace[c][Len(trace[c])] = Ev("download", "err", <<PipeFailed>>)
    /\ body[c] # <<>>
    /\ handles = {}

\* C14: a cycle whose download failed started neither docker nor tar, set no
\* timer, and is followed by no other cycle.
C14_FailedDownloadEndsCycle ==
  \A c \in CycleIds :
    Has(c, "download", "err") =>
      /\ pc[c] \in Ended
      /\ ~Has(c, "docker", "start") /\ ~Has(c, "tar", "start")
      /\ Count(c, "setTimeout", "ok") = 0
      /\ PendingBy(c) = {} /\ timers = <<>>
      /\ nCycles = c

\* the tile request of the timer's cycle was refused
C14_Witness ==
  /\ startedBy[2] = "timer"
  /\ Has(2, "download", "start")
  /\ trace[2][Len(trace[2])] = Ev("download", "err", <<FetchFailed>>)
  /\ pc[2] = "thrown"

(***************************************************************************)
(* createDirIfItDoenstExist on its own: a caller (invocation 1) calls it    *)
(* again and again on one of the two directories, on any filesystem a run  *)
(* can start with.  nCycles counts the calls.                              *)
(***************************************************************************)
\* number of calls of createDirIfItDoenstExist followed
MaxDirCalls == 3

LstatPositions == {"awaitLstatFiles", "awaitLstatStep"}
MkdirPositions == {"awaitMkdirFiles", "awaitMkdirStep"}

DirInit ==
  /\ env = [workerId |-> TRUE, token |-> TRUE]
  /\ proc = "running"
  /\ nCycles = 0
  /\ pc = [c \in CycleIds |-> "unborn"]
  /\ startedBy = [c \in CycleIds |-> "none"]
  /\ rawJson = [c \in CycleIds |-> NotAnObject]
  /\ parsed = [c \in CycleIds |-> Failure]
  /\ body = [c \in CycleIds |-> <<>>]
  /\ trace = [c \in CycleIds |-> <<>>]
  /\ timers = <<>>
  /\ fs \in InitialFs
  /\ handles = {}

\* the caller moves to position p, having logged events evs
DirStep(p, evs) ==
  /\ pc' = [pc EXCEPT ![1] = p]
  /\ trace' = [trace EXCEPT ![1] = trace[1] \o evs]

\* line 153-155: createDirIfItDoenstExist(dirPath) is called, Deno.lstat issued
DirCall ==
  /\ pc[1] \in {"unborn", "returned", "thrown"}
  /\ nCycles < MaxDirCalls
  /\ nCycles' = nCycles + 1
  /\ \E p \in LstatPositions :
       DirStep(p, <<Ev("createDir", "start",
                       <<IF p = "awaitLstatFiles" THEN LidarFilesDir
                         ELSE LidarStepDir>>)>>)
  /\ UNCHANGED <<env, proc, startedBy, rawJson, parsed, body, timers, fs, handles>>

\* DirLstatSettles without the lstat: Deno.mkdir is called whatever is there
DirLstatSettles_AlwaysMkdir ==
  /\ pc[1] \in LstatPositions
  /\ DirStep(IF LstatDir(1) = LidarFilesDir
             THEN "awaitMkdirFiles" ELSE "awaitMkdirStep", <<>>)
  /\ UNCHANGED <<env, proc, nCycles, startedBy, rawJson, parsed, body, timers, fs,
                 handles>>

\* lines 154-162: Deno.lstat(dirPath) settles
DirLstatSettles ==
  /\ pc[1] \in LstatPositions
  /\ \/ \* the path exists, whatever it is: nothing to do
        /\ fs[LstatDir(1)].kind # "absent"
        /\ DirStep("returned", <<Ev("createDir", "ok", <<LstatDir(1)>>)>>)
     \/ \* Deno.errors.NotFound: Deno.mkdir is called
        /\ fs[LstatDir(1)].kind = "absent"
        /\ DirStep(IF LstatDir(1) = LidarFilesDir
                   THEN "awaitMkdirFiles" ELSE "awaitMkdirStep", <<>>)
     \/ \* another error (permission denied, ...): logged and dropped
        DirStep("returned",
                <<Ev("lstat", "err", <<LstatDir(1)>>),
                  Ev("createDir", "ok", <<LstatDir(1)>>)>>)
  /\ UNCHANGED <<env, proc, nCycles, startedBy, rawJson, parsed, body, timers, fs,
                 handles>>

\* line 158: Deno.mkdir(dirPath, { recursive: true }) settles
DirMkdirSettles ==
  /\ pc[1] \in MkdirPositions
  /\ \/ /\ fs[MkdirDir(1)].kind # "file"
        /\ fs' = [fs EXCEPT ![MkdirDir(1)] = Dir]
        /\ DirStep("returned",
                   <<Ev("mkdir", "ok", <<MkdirDir(1)>>),
                     Ev("createDir", "ok", <<MkdirDir(1)>>)>>)
     \/ \* mkdir rejects: the error leaves createDirIfItDoenstExist
        /\ DirStep("thrown", <<Ev("createDir", "err", <<MkdirDir(1)>>)>>)
        /\ UNCHANGED fs
  /\ UNCHANGED <<env, proc, nCycles, startedBy, rawJson, parsed, body, timers, handles>>

DirNext == DirCall \/ DirLstatSettles \/ DirMkdirSettles

DirSpec == DirInit /\ [][DirNext]_vars

\* the directory of the call in progress
DirOfCall == IF pc[1] \in LstatPositions THEN LstatDir(1) ELSE MkdirDir(1)

\* C15, one step of a call of createDirIfItDoenstExist(d):
\*  - d exists: the call returns, with no error and nothing changed;
\*  - the filesystem changes only by creating the absent d as a directory, and
\*    a call that went for mkdir and returned has created it;
\*  - a call after one that left d in place changes nothing (twice is once).
C15_CallStep ==
  (pc[1] \in LstatPositions \cup MkdirPositions /\ pc'[1] # pc[1]) =>
    LET d == DirOfCall IN
    /\ fs[d].kind # "absent" => pc'[1] = "returned" /\ fs' = fs
    /\ fs' # fs =>
         /\ fs[d].kind = "absent"
         /\ fs' = [fs EXCEPT ![d] = [kind |-> "dir", bytes |-> <<>>]]
    /\ (pc[1] \in MkdirPositions /\ pc'[1] = "returned") => fs'[d].kind = "dir"
    /\ (\E i \in DOMAIN trace[1] :
          /\ trace[1][i] = Ev("createDir", "ok", <<d>>)
          /\ fs[d].kind # "absent")
         => fs' = fs /\ pc'[1] = "returned"

\* C15: createDirIfItDoenstExist is idempotent.
C15_CreateDirIdempotent == [][C15_CallStep]_vars

\* lidar-step was created by one call and found by the next
C15_Witness ==
  /\ pc[1] = "returned"
  /\ Count(1, "mkdir", "ok") = 1
  /\ \E i \in DOMAIN trace[1] : trace[1][i] = Ev("mkdir", "ok", <<LidarStepDir>>)
  /\ Cardinality({i \in DOMAIN trace[1] :
                    trace[1][i] = Ev("createDir", "ok", <<LidarStepDir>>)}) = 2
  /\ fs[LidarStepDir].kind = "dir"

\* the paths of the claims, written out
Path42_7Bin ==
  <<"l","i","d","a","r","-","f","i","l","e","s","/","4","2","_","7",".","b","i","n">>
Step42_7 == <<"l","i","d","a","r","-","s","t","e","p","/","4","2","_","7">>

\* s up to its first "?" or "#": a URL without its query and fragment
RECURSIVE UpToQuery(_)
UpToQuery(s) ==
  IF s = <<>> \/ Head(s) \in {"?", "#"} THEN <<>>
  ELSE <<Head(s)>> \o UpToQuery(Tail(s))

\* the text of s after its last "/"
RECURSIVE AfterLastSlash(_)
AfterLastSlash(s) ==
  IF s = <<>> \/ s[Len(s)] = "/" THEN <<>>
  ELSE AfterLastSlash(SubSeq(s, 1, Len(s) - 1)) \o <<s[Len(s)]>>

\* the final segment of the path of the URL s
FinalPathSegment(s) == AfterLastSlash(UpToQuery(s))

\* dir/name, dir itself for the empty name
Under(dir, name) == IF name = <<>> THEN dir ELSE dir \o <<"/">> \o name

\* the commands and the download of invocation c are as derived from its job,
\* the file name being name(tileUrl)
PathsDerived(c, name(_)) ==
  LET job == parsed[c].data
      file == Under(LidarFilesDir, name(job.tileUrl.s))
      out == Under(LidarStepDir, TileName(job.x.n, job.y.n))
  IN \A i \in DOMAIN trace[c] :
       LET e == trace[c][i] IN
       /\ (e.op = "download" /\ e.st = "start") =>
            /\ e.args = <<job.tileUrl.s, file>>
            /\ job.tileUrl.s = ExampleTileUrl => e.args[2] = Path42_7Bin
       /\ (e.op = "docker" /\ e.st = "start") =>
            /\ e.args = <<<<"l","i","d","a","r">>, file, <<"-","o">>, out>>
            /\ (job.x.n = 42 /\ job.y.n = 7) => e.args[4] = Step42_7
       /\ (e.op = "tar" /\ e.st = "start") =>
            /\ e.args[2] = out \o <<".","t","a","r",".","b","z","2">>
            /\ e.args[3] = out

\* C16: the download goes to lidar-files/<final path segment of tileUrl>,
\* docker gets `lidar <that file> -o lidar-step/{x}_{y}` and tar writes
\* lidar-step/{x}_{y}.tar.bz2.
C16_PathsFromFinalSegment ==
  \A c \in CycleIds : PathsDerived(c, FinalPathSegment)

\* the same with the file name read as the text after the last "/" of the
\* whole tileUrl, query and fragment included
PathsFromLastSlash ==
  \A c \in CycleIds : PathsDerived(c, AfterLastSlash)

\* a render or pyramid cycle in one step: from the decoded response to the
\* return, with the filesystem, the timers and the open files as they were
C17_StubStep ==
  \A c \in CycleIds :
    (pc[c] = "awaitJson" /\ pc'[c] # "awaitJson"
       /\ parsed'[c].type \in {"render", "pyramid"}) =>
      /\ pc'[c] = "returned"
      /\ fs' = fs /\ timers' = timers /\ handles' = handles
      /\ trace'[c] = trace[c] \o <<Ev("json", "ok", <<>>), Ev("decode", "ok", <<>>)>>

\* a render or pyramid cycle polled and decoded, and did nothing else
C17_StubDidNothing ==
  \A c \in CycleIds :
    (Decoded(c, "render") \/ Decoded(c, "pyramid")) =>
      /\ pc[c] = "returned"
      /\ \A i \in DOMAIN trace[c] : trace[c][i].op \in {"poll", "json", "decode"}
      /\ PendingBy(c) = {}

\* C17: a cycle whose job is Render or Pyramid creates no directory, downloads
\* nothing, runs no command and sets no timer; it leaves the filesystem and
\* the pending timers unchanged.
C17_StubBranchesDoNoWork == [][C17_StubStep]_vars /\ []C17_StubDidNothing

\* the timer's cycle was handed a pyramid job
C17_Witness ==
  /\ startedBy[2] = "timer"
  /\ Decoded(2, "pyramid")
  /\ parsed[2].data.z = Num(7)
  /\ pc[2] = "returned"

\* every poll so far was answered NoJobLeft
OnlyNoJobLeftSoFar ==
  /\ nCycles >= 1
  /\ \A c \in 1..nCycles : Decoded(c, "no-job-left")

\* C18: a NoJobLeft response is followed by the poll of the next invocation,
\* and while every response is NoJobLeft the process keeps running.
C18_NoJobLeftRepolls ==
  /\ \A c \in 1..(MaxCycles - 1) :
       Decoded(c, "no-job-left") ~> Has(c + 1, "poll", "start")
  /\ [](OnlyNoJobLeftSoFar => proc = "running")

\* after two NoJobLeft responses the third poll is under way
C18_Witness ==
  /\ Decoded(1, "no-job-left") /\ Decoded(2, "no-job-left")
  /\ nCycles = 3
  /\ startedBy[3] = "timer"
  /\ pc[3] = "awaitPoll"
  /\ trace[3] = <<Ev("poll", "start", <<>>)>>

\* C19 as stated: no invocation is ever ended by createDirIfItDoenstExist.
C19_DirStepNeverAborts ==
  \A c \in CycleIds : ~Has(c, "createDir", "err")

\* the position after createDirIfItDoenstExist(dir) returned
AfterDir(dir) == IF dir = LidarFilesDir THEN "awaitLstatStep" ELSE "awaitTileFetch"
MkdirOf(dir) == IF dir = LidarFilesDir THEN "awaitMkdirFiles" ELSE "awaitMkdirStep"

\* one step of an invocation inside createDirIfItDoenstExist
C19_DirStep ==
  \A c \in CycleIds :
    /\ (pc[c] \in LstatPositions /\ pc'[c] # pc[c]) =>
         /\ pc'[c] \in {AfterDir(LstatDir(c)), MkdirOf(LstatDir(c))}
         /\ fs' = fs
         /\ proc' = "running"
         /\ fs[LstatDir(c)].kind # "absent" => pc'[c] = AfterDir(LstatDir(c))
         /\ pc'[c] = MkdirOf(LstatDir(c)) => fs[LstatDir(c)].kind = "absent"
    /\ (~Has(c, "createDir", "err") /\ Has(c, "createDir", "err")') =>
         /\ pc[c] \in MkdirPositions
         /\ pc'[c] = "thrown"
         /\ fs' = fs
         /\ proc' = "crashed"

\* a lidar invocation that came through both directory steps went on to the
\* download, whatever is at the two paths
C19_PastDirSteps ==
  \A c \in CycleIds :
    Count(c, "createDir", "ok") = 2 =>
      /\ Has(c, "download", "start")
      /\ ~Has(c, "createDir", "err")

\* C19 (amended): an lstat that settles never ends the invocation and never
\* changes the filesystem; an existing target of any kind is accepted, an
\* absent one leads to mkdir or, after another lstat error, straight on; the
\* invocation then reaches the download.  Only a rejecting mkdir ends the
\* invocation at the directory step, and the process with it.
C19_OnlyMkdirAborts == [][C19_DirStep]_vars /\ []C19_PastDirSteps

\* lidar-files is a plain file and lidar-step is missing, both calls of
\* createDirIfItDoenstExist returned and the download is under way
C19_Witness ==
  \E c \in CycleIds :
    /\ pc[c] = "awaitTileFetch"
    /\ fs[LidarFilesDir].kind = "file"
    /\ fs[LidarStepDir].kind = "absent"
    /\ Count(c, "createDir", "ok") = 2

\* a rejecting mkdir ended the invocation at the directory step
C19_MkdirAborted ==
  \E c \in CycleIds :
    /\ pc[c] = "thrown"
    /\ Has(c, "createDir", "err")
    /\ ~Has(c, "download", "start")


====
